---- MODULE Spec2Model ----
(***************************************************************************)
(* Model of the browserllama background coordinator                        *)
(* (src/extension/background.js): the native-messaging link with its       *)
(* reconnect policy, the three UI channels (popup, summary page, chat      *)
(* page) and the task-aware dispatch of native replies.                    *)
(*                                                                         *)
(* Every handler of background.js is one action.  A handler run leaves in  *)
(* `fx` the sequence of externally visible effects it produced (messages   *)
(* posted on UI ports, messages posted on the native port, connectNative   *)
(* calls, setTimeout calls), in `ev` the event it handled together with    *)
(* the link state it started from, and in `raised` whether an exception    *)
(* escaped it.                                                             *)
(*                                                                         *)
(* Native Port objects are not told apart by identity: the handlers never  *)
(* look at which Port fired.  `port` is the state of the Port the global   *)
(* `port` references; strayOpen / strayDead count the Ports that the       *)
(* global no longer references but whose listeners (lines 96-97) are still *)
(* registered.  A Port is "dead" from the moment the native side closed    *)
(* the transport until its onDisconnect listener has run; postMessage on   *)
(* it throws.  UI ports are counted the same way: portbg/portsumpg/portchpg*)
(* hold the state of the Port the global references, `old` counts the      *)
(* superseded Ports of a role that are still open.                         *)
(***************************************************************************)
EXTENDS Integers, Sequences, FiniteSets, TLC

\* ---- bounds of the model ------------------------------------------------
MaxConns == 4
MaxTimers == 1
MaxOld == 1
MaxGets == 1
MaxAuto == 4

\* ---- program constants --------------------------------------------------
MAX_RECONNECT_ATTEMPTS == 3

VARIABLES port, strayOpen, strayDead, reconnectAttempts, timers,
          portbg, portsumpg, portchpg, old,
          receivedMsgFromComponent, ctxRole,
          extract, gets,
          ev, fx, raised

vars == <<port, strayOpen, strayDead, reconnectAttempts, timers,
          portbg, portsumpg, portchpg, old,
          receivedMsgFromComponent, ctxRole, extract, gets, ev, fx, raised>>

linkVars == <<port, strayOpen, strayDead, reconnectAttempts>>
chanVars == <<portbg, portsumpg, portchpg, old>>
ctxVars == <<receivedMsgFromComponent, ctxRole>>
storeVars == <<extract, gets>>

Roles == {"Control", "Summary", "Chat"}

\* ---- message shapes -----------------------------------------------------
\* A message a UI surface posts on its channel: an object {status, task,
\* text}, an object without those keys, a string or a number.
Obj(s, t, x) == [shape |-> "object", status |-> s, task |-> t, text |-> x]
Str(s) == [shape |-> "string", status |-> "-", task |-> "-", text |-> <<s>>]
Num(n) == [shape |-> "number", status |-> "-", task |-> "-", text |-> <<n>>]
Undefined == [shape |-> "undefined", status |-> "-", task |-> "-", text |-> <<>>]

\* main.js bgcon: 1, 2 and the object {text: ...}
Sentinel1 == Num("1")
Sentinel2 == Num("2")
ControlOther == Obj("-", "-", <<"hello">>)
ControlMsgs == {Sentinel1, Sentinel2, ControlOther}

\* summary.js bgcon / summarybgcon
SummaryAsk == Obj("old_chat", "summary", <<"hello">>)
SummaryFurther == Obj("old_chat", "summarise-further", <<"None">>)
Abort == Obj("abort", "chat", <<"None">>)
Initialize == Str("initialize")
SummaryMsgs == {SummaryAsk, SummaryFurther, Abort, Initialize}

\* chat.js bgcon
ChatNew == Obj("new_chat", "chat", <<"hello">>)
ChatOld == Obj("old_chat", "chat", <<"hello">>)
ChatMsgs == {ChatNew, ChatOld, Abort}

\* A message of the native host, by the keys the coordinator looks at.
Native(e, p, r, full, chunk, other) ==
    [echo |-> e, ping |-> p, error |-> r, ai_response |-> full,
     ai_response_chunk |-> chunk, foo |-> other]
EchoMsg == Native("object", "-", "-", "-", "-", "-")
PongMsg == Native("-", "pong", "-", "-", "-", "-")
RelaunchMsg == Native("-", "-", "relaunching kcpp exe", "-", "-", "-")
AiFull == Native("-", "-", "-", "^^^stop^^^", "-", "-")
AiChunk == Native("-", "-", "-", "-", "hi", "-")
Unrecognized == Native("-", "-", "-", "-", "-", "bar")
NativeMsgs == {EchoMsg, PongMsg, RelaunchMsg, AiFull, AiChunk, Unrecognized}

\* What the coordinator posts on a UI channel: a status string, the error
\* object of the summary/chat handlers, or a native message as received.
Status(s) == [str |-> s]
SendError == [error |-> "Failed to send native message"]

\* What the coordinator posts on the native port.
Envelope(data) == [data |-> data]
pingmsg == [data |-> [status |-> "", task |-> "ping", text |-> ""]]

\* ---- effects ------------------------------------------------------------
UiPost(role, ch, m) == [kind |-> "ui", role |-> role, chan |-> ch, msg |-> m]
NativePost(m) == [kind |-> "native", role |-> "-", chan |-> "-", msg |-> m]
ConnectNative(ok) == [kind |-> "connectNative", role |-> "-", chan |-> "-",
                      msg |-> [returned |-> ok]]
SetTimeout == [kind |-> "setTimeout", role |-> "-", chan |-> "-",
               msg |-> [delay |-> 1000]]

\* The event a handler ran for, with what the handler started from: the held
\* Port, the attempt counter and the role of the recorded request.  `auto`
\* counts the connect() calls made by the reconnect timer since the last UI
\* message (it stops counting at MaxAuto).
Event(kind, role, ch, m) ==
    [kind |-> kind, role |-> role, chan |-> ch, msg |-> m,
     port |-> port, attempts |-> reconnectAttempts, ctx |-> ctxRole,
     auto |-> IF kind = "timer" /\ port = "null"
              THEN (IF ev.auto < MaxAuto THEN ev.auto + 1 ELSE MaxAuto)
              ELSE IF kind = "message" THEN 0 ELSE ev.auto]

\* ---- UI channel registry ------------------------------------------------
Reg(role) == CASE role = "Control" -> portbg
               [] role = "Summary" -> portsumpg
               [] role = "Chat" -> portchpg

\* Forward with a fallback to a superseded Port of the role.
ForwardFallback(role, data) ==
    IF Reg(role) = "undefined" THEN <<>>
    ELSE IF Reg(role) = "open" THEN <<UiPost(role, "cur", data)>>
    ELSE IF old[role] > 0 THEN <<UiPost(role, "old", data)>>
    ELSE <<>>

\* function forwardtopopup / forward_to_summarise_page / forward_to_chat_page:
\* if (portX) { try { portX.postMessage(data) } catch { log } }
Forward(role, data) ==
    IF Reg(role) = "undefined" THEN <<>>
    ELSE IF Reg(role) = "open" THEN <<UiPost(role, "cur", data)>>
    ELSE <<>>

forwardtopopup(data) == Forward("Control", data)
\* forward_to_summarise_page that takes a closed Port for a channel.
forward_to_summarise_pageStale(data) ==
    IF portsumpg = "undefined" THEN <<>> ELSE <<UiPost("Summary", "cur", data)>>

forward_to_summarise_page(data) == Forward("Summary", data)
forward_to_chat_page(data) == Forward("Chat", data)

\* ---- native link --------------------------------------------------------
Link == [port |-> port, strayOpen |-> strayOpen, strayDead |-> strayDead,
         reconnectAttempts |-> reconnectAttempts]

Conns == (IF port = "null" THEN 0 ELSE 1) + strayOpen + strayDead

\* connect that resets the attempt counter before it calls connectNative.
connectResetFirst(ok) ==
    IF ok
    THEN [ret |-> TRUE,
          link |-> [port |-> "open",
                    strayOpen |-> strayOpen + (IF port = "open" THEN 1 ELSE 0),
                    strayDead |-> strayDead + (IF port = "dead" THEN 1 ELSE 0),
                    reconnectAttempts |-> 0],
          fx |-> <<ConnectNative(TRUE)>>]
    ELSE [ret |-> FALSE,
          link |-> [Link EXCEPT !.reconnectAttempts = 0],
          fx |-> <<ConnectNative(FALSE)>> \o forwardtopopup(Status("error"))]

\* function connect(): `ok` is whether chrome.runtime.connectNative returned
\* a Port (TRUE) or threw (FALSE).
connect(ok) ==
    IF ok
    THEN [ret |-> TRUE,
          link |-> [port |-> "open",
                    strayOpen |-> strayOpen + (IF port = "open" THEN 1 ELSE 0),
                    strayDead |-> strayDead + (IF port = "dead" THEN 1 ELSE 0),
                    reconnectAttempts |-> 0],
          fx |-> <<ConnectNative(TRUE)>>]
    ELSE [ret |-> FALSE,
          link |-> Link,
          fx |-> <<ConnectNative(FALSE)>> \o forwardtopopup(Status("error"))]

\* ping that reports failure without looking at the port.
pingDeaf == [ret |-> FALSE, fx |-> <<>>]

\* ping without the early return on a missing port.
pingBlind ==
    IF port = "dead" THEN [ret |-> FALSE, fx |-> forwardtopopup(Status("ping_failed"))]
    ELSE [ret |-> TRUE, fx |-> <<NativePost(pingmsg)>>]

\* ping whose catch block only returns false.
pingQuiet ==
    IF port = "null" THEN [ret |-> FALSE, fx |-> <<>>]
    ELSE IF port = "open" THEN [ret |-> TRUE, fx |-> <<NativePost(pingmsg)>>]
    ELSE [ret |-> FALSE, fx |-> <<>>]

\* function ping()
ping ==
    IF port = "null" THEN [ret |-> FALSE, fx |-> <<>>]
    ELSE IF port = "open" THEN [ret |-> TRUE, fx |-> <<NativePost(pingmsg)>>]
    ELSE [ret |-> FALSE, fx |-> forwardtopopup(Status("ping_failed"))]

\* sendNativeMessage that posts the envelope twice on a live port.
sendNativeMessageTwice(data, ok) ==
    IF port = "null"
    THEN LET c == connect(ok) IN
         IF ~c.ret
         THEN [threw |-> TRUE, link |-> c.link,
               fx |-> c.fx \o forwardtopopup(Status("failed_to_send_message_to_backend"))]
         ELSE [threw |-> FALSE, link |-> c.link,
               fx |-> c.fx \o <<NativePost(Envelope(data))>>]
    ELSE IF port = "open"
    THEN [threw |-> FALSE, link |-> Link,
          fx |-> <<NativePost(Envelope(data)), NativePost(Envelope(data))>>]
    ELSE [threw |-> TRUE, link |-> Link,
          fx |-> forwardtopopup(Status("failed_to_send_message_to_backend"))]

\* sendNativeMessage that re-throws without telling the popup.
sendNativeMessageSilent(data, ok) ==
    IF port = "null"
    THEN LET c == connect(ok) IN
         IF ~c.ret
         THEN [threw |-> TRUE, link |-> c.link, fx |-> c.fx]
         ELSE [threw |-> FALSE, link |-> c.link,
               fx |-> c.fx \o <<NativePost(Envelope(data))>>]
    ELSE IF port = "open"
    THEN [threw |-> FALSE, link |-> Link, fx |-> <<NativePost(Envelope(data))>>]
    ELSE [threw |-> TRUE, link |-> Link, fx |-> <<>>]

\* function sendNativeMessage(data): `threw` is whether it re-threw.
sendNativeMessage(data, ok) ==
    IF port = "null"
    THEN LET c == connect(ok) IN
         IF ~c.ret
         THEN [threw |-> TRUE, link |-> c.link,
               fx |-> c.fx \o forwardtopopup(Status("failed_to_send_message_to_backend"))]
         ELSE [threw |-> FALSE, link |-> c.link,
               fx |-> c.fx \o <<NativePost(Envelope(data))>>]
    ELSE IF port = "open"
    THEN [threw |-> FALSE, link |-> Link, fx |-> <<NativePost(Envelope(data))>>]
    ELSE [threw |-> TRUE, link |-> Link,
          fx |-> forwardtopopup(Status("failed_to_send_message_to_backend"))]

SetLink(l) ==
    /\ port' = l.port
    /\ strayOpen' = l.strayOpen
    /\ strayDead' = l.strayDead
    /\ reconnectAttempts' = l.reconnectAttempts

\* connectNative can hand out a new Port only while the model has room.
Room(ok) == ok => Conns < MaxConns

\* ---- reply routing ------------------------------------------------------
\* handleAIResponse that ignores the recorded task.
handleAIResponseAllSummary(msg) == forward_to_summarise_page(msg)

\* handleAIResponse whose default branch picks the chat page.
handleAIResponseDefaultChat(msg) ==
    IF receivedMsgFromComponent.shape = "object" /\ receivedMsgFromComponent.task # "-"
    THEN IF receivedMsgFromComponent.task = "chat"
         THEN forward_to_chat_page(msg)
         ELSE forward_to_summarise_page(msg)
    ELSE forward_to_chat_page(msg)

\* function handleAIResponse(msg)
handleAIResponse(msg) ==
    IF receivedMsgFromComponent.shape = "object" /\ receivedMsgFromComponent.task # "-"
    THEN IF receivedMsgFromComponent.task = "chat"
         THEN forward_to_chat_page(msg)
         ELSE forward_to_summarise_page(msg)
    ELSE forward_to_summarise_page(msg)

\* onNativeMessage that treats the relaunch notice as one more reply.
onNativeMessageNoRelaunch(msg) ==
    IF msg.echo # "-" THEN <<>>
    ELSE IF msg.ping = "pong" THEN forwardtopopup(Status("ping_success"))
    ELSE handleAIResponse(msg)

\* onNativeMessage that hands the echo probe to the reply router.
onNativeMessageEchoRouted(msg) ==
    IF msg.ping = "pong" THEN forwardtopopup(Status("ping_success"))
    ELSE IF msg.error = "relaunching kcpp exe" THEN forwardtopopup(Status("ping_failed"))
    ELSE handleAIResponse(msg)

\* function onNativeMessage(msg)
onNativeMessage(msg) ==
    IF msg.echo # "-" THEN <<>>
    ELSE IF msg.ping = "pong" THEN forwardtopopup(Status("ping_success"))
    ELSE IF msg.error = "relaunching kcpp exe" THEN forwardtopopup(Status("ping_failed"))
    ELSE handleAIResponse(msg)

\* ---- initial state ------------------------------------------------------
Init ==
    /\ port = "null"
    /\ strayOpen = 0
    /\ strayDead = 0
    /\ reconnectAttempts = 0
    /\ timers = 0
    /\ portbg = "undefined"
    /\ portsumpg = "undefined"
    /\ portchpg = "undefined"
    /\ old = [r \in Roles |-> 0]
    /\ receivedMsgFromComponent = Undefined
    /\ ctxRole = "-"
    /\ extract = "undefined"
    /\ gets = 0
    /\ ev = [kind |-> "start", role |-> "-", chan |-> "-", msg |-> Undefined,
             port |-> "null", attempts |-> 0, ctx |-> "-", auto |-> 0]
    /\ fx = <<>>
    /\ raised = FALSE

\* ---- UI channels: chrome.runtime.onConnect listeners ----------------------
SetReg(role, v) ==
    /\ portbg' = IF role = "Control" THEN v ELSE portbg
    /\ portsumpg' = IF role = "Summary" THEN v ELSE portsumpg
    /\ portchpg' = IF role = "Chat" THEN v ELSE portchpg

ChanOpen(role, ch) == IF ch = "cur" THEN Reg(role) = "open" ELSE old[role] > 0

\* An onConnect listener that keeps the Port it stored first.
AttachKeepFirst(role) ==
    /\ Reg(role) # "undefined" => old[role] < MaxOld
    /\ SetReg(role, IF Reg(role) = "undefined" THEN "open" ELSE Reg(role))
    /\ old' = IF Reg(role) # "undefined" THEN [old EXCEPT ![role] = @ + 1] ELSE old
    /\ ev' = Event("attach", role, "cur", Undefined)
    /\ fx' = <<>>
    /\ raised' = FALSE
    /\ UNCHANGED <<linkVars, timers, ctxVars, storeVars>>

\* A surface opens a named connection: the listener stores the new Port in
\* the role's global and registers the role's onMessage handler on it.
Attach(role) ==
    /\ Reg(role) = "open" => old[role] < MaxOld
    /\ SetReg(role, "open")
    /\ old' = IF Reg(role) = "open" THEN [old EXCEPT ![role] = @ + 1] ELSE old
    /\ ev' = Event("attach", role, "cur", Undefined)
    /\ fx' = <<>>
    /\ raised' = FALSE
    /\ UNCHANGED <<linkVars, timers, ctxVars, storeVars>>

\* The transport of a UI channel closes (the page went away).  background.js
\* registers no onDisconnect listener on UI ports: the global keeps the Port.
TransportClose(role, ch) ==
    /\ ChanOpen(role, ch)
    /\ IF ch = "cur"
       THEN SetReg(role, "closed") /\ old' = old
       ELSE old' = [old EXCEPT ![role] = @ - 1] /\ UNCHANGED <<portbg, portsumpg, portchpg>>
    /\ ev' = Event("close", role, ch, Undefined)
    /\ fx' = <<>>
    /\ raised' = FALSE
    /\ UNCHANGED <<linkVars, timers, ctxVars, storeVars>>

\* Sentinel 1 that reconnects whatever ping() returned.
ControlVerifyReconnect(ch, ok) ==
    /\ ChanOpen("Control", ch)
    /\ LET p == ping
           c == connect(ok) IN
       /\ Room(ok)
       /\ SetLink(c.link)
       /\ fx' = p.fx \o c.fx
    /\ ev' = Event("message", "Control", ch, Sentinel1)
    /\ raised' = FALSE
    /\ UNCHANGED <<timers, chanVars, ctxVars, storeVars>>

\* ---- popup<->background onMessage handler --------------------------------
ControlVerify(ch, ok) ==
    /\ ChanOpen("Control", ch)
    /\ LET p == ping IN
       IF p.ret = FALSE
       THEN LET c == connect(ok) IN
            /\ Room(ok)
            /\ SetLink(c.link)
            /\ fx' = p.fx \o c.fx
       ELSE /\ ok
            /\ fx' = p.fx
            /\ UNCHANGED linkVars
    /\ ev' = Event("message", "Control", ch, Sentinel1)
    /\ raised' = FALSE
    /\ UNCHANGED <<timers, chanVars, ctxVars, storeVars>>

\* function sendExtractedNativeMessage(): chrome.storage.session.get is
\* asynchronous, its callback is the action StorageGetCallback.
ControlSendExtract(ch) ==
    /\ ChanOpen("Control", ch)
    /\ gets < MaxGets
    /\ gets' = gets + 1
    /\ ev' = Event("message", "Control", ch, Sentinel2)
    /\ fx' = <<>>
    /\ raised' = FALSE
    /\ UNCHANGED <<linkVars, timers, chanVars, ctxVars, extract>>

ControlForward(ch, ok) ==
    /\ ChanOpen("Control", ch)
    /\ IF port = "null" THEN Room(ok) ELSE ok
    /\ LET s == sendNativeMessage(ControlOther, ok) IN
       /\ SetLink(s.link)
       /\ fx' = s.fx
       /\ raised' = s.threw
    /\ ev' = Event("message", "Control", ch, ControlOther)
    /\ UNCHANGED <<timers, chanVars, ctxVars, storeVars>>

\* ---- summary<->background and chat<->background onMessage handlers --------
\* The catch block posts on the Port the message arrived on (the listener's
\* own `port` parameter), not on the role's global.
SendOrReport(role, ch, m, ok) ==
    LET s == sendNativeMessage(m, ok) IN
    /\ SetLink(s.link)
    /\ fx' = IF s.threw THEN s.fx \o <<UiPost(role, ch, SendError)>> ELSE s.fx
    /\ raised' = FALSE

\* A summary handler without the "initialize" branch.
SummaryMessageNoInit(ch, m, ok) ==
    /\ ChanOpen("Summary", ch)
    /\ IF port = "null" THEN Room(ok) ELSE ok
    /\ receivedMsgFromComponent' = m
    /\ ctxRole' = "Summary"
    /\ SendOrReport("Summary", ch, m, ok)
    /\ ev' = Event("message", "Summary", ch, m)
    /\ UNCHANGED <<timers, chanVars, storeVars>>

SummaryMessage(ch, m, ok) ==
    /\ ChanOpen("Summary", ch)
    /\ IF port = "null" /\ m # Initialize THEN Room(ok) ELSE ok
    /\ receivedMsgFromComponent' = m
    /\ ctxRole' = "Summary"
    /\ IF m = Initialize
       THEN fx' = <<>> /\ raised' = FALSE /\ UNCHANGED linkVars
       ELSE SendOrReport("Summary", ch, m, ok)
    /\ ev' = Event("message", "Summary", ch, m)
    /\ UNCHANGED <<timers, chanVars, storeVars>>

\* A chat handler that records the request only once it was sent.
ChatMessageStampAfter(ch, m, ok) ==
    /\ ChanOpen("Chat", ch)
    /\ IF port = "null" THEN Room(ok) ELSE ok
    /\ IF sendNativeMessage(m, ok).threw
       THEN UNCHANGED ctxVars
       ELSE receivedMsgFromComponent' = m /\ ctxRole' = "Chat"
    /\ SendOrReport("Chat", ch, m, ok)
    /\ ev' = Event("message", "Chat", ch, m)
    /\ UNCHANGED <<timers, chanVars, storeVars>>

ChatMessage(ch, m, ok) ==
    /\ ChanOpen("Chat", ch)
    /\ IF port = "null" THEN Room(ok) ELSE ok
    /\ receivedMsgFromComponent' = m
    /\ ctxRole' = "Chat"
    /\ SendOrReport("Chat", ch, m, ok)
    /\ ev' = Event("message", "Chat", ch, m)
    /\ UNCHANGED <<timers, chanVars, storeVars>>

\* ---- native port listeners -----------------------------------------------
\* A native listener that consumes the task context it routed by.
NativeMessageConsuming(m) ==
    /\ port = "open" \/ strayOpen > 0
    /\ fx' = onNativeMessage(m)
    /\ ev' = Event("native", "-", "-", m)
    /\ raised' = FALSE
    /\ receivedMsgFromComponent' = Undefined
    /\ ctxRole' = "-"
    /\ UNCHANGED <<linkVars, timers, chanVars, storeVars>>

\* port.onMessage: any Port that is still open delivers to onNativeMessage.
NativeMessage(m) ==
    /\ port = "open" \/ strayOpen > 0
    /\ fx' = onNativeMessage(m)
    /\ ev' = Event("native", "-", "-", m)
    /\ raised' = FALSE
    /\ UNCHANGED <<linkVars, timers, chanVars, ctxVars, storeVars>>

\* The native host closes the transport of one Port; its onDisconnect
\* listener has not run yet.
NativeClose(held) ==
    /\ IF held
       THEN /\ port = "open"
            /\ port' = "dead"
            /\ UNCHANGED <<strayOpen, strayDead>>
       ELSE /\ strayOpen > 0
            /\ strayOpen' = strayOpen - 1
            /\ strayDead' = strayDead + 1
            /\ port' = port
    /\ ev' = Event("nativeClose", "-", IF held THEN "held" ELSE "stray", Undefined)
    /\ fx' = <<>>
    /\ raised' = FALSE
    /\ UNCHANGED <<reconnectAttempts, timers, chanVars, ctxVars, storeVars>>

\* onDisconnected with the limit test off by one (<= for <).
onDisconnectedOffByOne(held) ==
    /\ IF held THEN port = "dead" ELSE strayDead > 0
    /\ port' = "null"
    /\ strayOpen' = strayOpen + (IF port = "open" THEN 1 ELSE 0)
    /\ strayDead' = IF held THEN strayDead
                    ELSE strayDead - 1 + (IF port = "dead" THEN 1 ELSE 0)
    /\ IF reconnectAttempts <= MAX_RECONNECT_ATTEMPTS
       THEN /\ timers < MaxTimers
            /\ reconnectAttempts' = reconnectAttempts + 1
            /\ timers' = timers + 1
            /\ fx' = <<SetTimeout>>
       ELSE /\ fx' = forwardtopopup(Status("connection_failed"))
            /\ UNCHANGED <<reconnectAttempts, timers>>
    /\ ev' = Event("disconnect", "-", IF held THEN "held" ELSE "stray", Undefined)
    /\ raised' = FALSE
    /\ UNCHANGED <<chanVars, ctxVars, storeVars>>

\* onDisconnected that counts the event in both branches.
onDisconnectedCountsAll(held) ==
    /\ IF held THEN port = "dead" ELSE strayDead > 0
    /\ port' = "null"
    /\ strayOpen' = strayOpen + (IF port = "open" THEN 1 ELSE 0)
    /\ strayDead' = IF held THEN strayDead
                    ELSE strayDead - 1 + (IF port = "dead" THEN 1 ELSE 0)
    /\ reconnectAttempts' = reconnectAttempts + 1
    /\ IF reconnectAttempts < MAX_RECONNECT_ATTEMPTS
       THEN /\ timers < MaxTimers
            /\ timers' = timers + 1
            /\ fx' = <<SetTimeout>>
       ELSE /\ fx' = forwardtopopup(Status("connection_failed"))
            /\ UNCHANGED timers
    /\ ev' = Event("disconnect", "-", IF held THEN "held" ELSE "stray", Undefined)
    /\ raised' = FALSE
    /\ UNCHANGED <<chanVars, ctxVars, storeVars>>

\* function onDisconnected(): runs for the Port whose transport closed, held
\* or not; it clears the global whichever Port that was.
onDisconnected(held) ==
    /\ IF held THEN port = "dead" ELSE strayDead > 0
    /\ port' = "null"
    /\ strayOpen' = strayOpen + (IF port = "open" THEN 1 ELSE 0)
    /\ strayDead' = IF held THEN strayDead
                    ELSE strayDead - 1 + (IF port = "dead" THEN 1 ELSE 0)
    /\ IF reconnectAttempts < MAX_RECONNECT_ATTEMPTS
       THEN /\ timers < MaxTimers
            /\ reconnectAttempts' = reconnectAttempts + 1
            /\ timers' = timers + 1
            /\ fx' = <<SetTimeout>>
       ELSE /\ fx' = forwardtopopup(Status("connection_failed"))
            /\ UNCHANGED <<reconnectAttempts, timers>>
    /\ ev' = Event("disconnect", "-", IF held THEN "held" ELSE "stray", Undefined)
    /\ raised' = FALSE
    /\ UNCHANGED <<chanVars, ctxVars, storeVars>>

\* A timer callback with the test on the port inverted.
ReconnectTimerInverted(ok) ==
    /\ timers > 0
    /\ timers' = timers - 1
    /\ IF port # "null"
       THEN LET c == connect(ok) IN
            /\ Room(ok)
            /\ SetLink(c.link)
            /\ fx' = c.fx
       ELSE /\ ok
            /\ fx' = <<>>
            /\ UNCHANGED linkVars
    /\ ev' = Event("timer", "-", "-", Undefined)
    /\ raised' = FALSE
    /\ UNCHANGED <<chanVars, ctxVars, storeVars>>

\* A timer callback that connects without looking at the port.
ReconnectTimerUnguarded(ok) ==
    /\ timers > 0
    /\ timers' = timers - 1
    /\ LET c == connect(ok) IN
       /\ Room(ok)
       /\ SetLink(c.link)
       /\ fx' = c.fx
    /\ ev' = Event("timer", "-", "-", Undefined)
    /\ raised' = FALSE
    /\ UNCHANGED <<chanVars, ctxVars, storeVars>>

\* The setTimeout callback of onDisconnected.
ReconnectTimer(ok) ==
    /\ timers > 0
    /\ timers' = timers - 1
    /\ IF port = "null"
       THEN LET c == connect(ok) IN
            /\ Room(ok)
            /\ SetLink(c.link)
            /\ fx' = c.fx
       ELSE /\ ok
            /\ fx' = <<>>
            /\ UNCHANGED linkVars
    /\ ev' = Event("timer", "-", "-", Undefined)
    /\ raised' = FALSE
    /\ UNCHANGED <<chanVars, ctxVars, storeVars>>

\* ---- chrome.runtime.onMessage listener and the session slot ---------------
RuntimeRequests == {"connect", "inject", "article"}

RuntimeMessage(req) ==
    /\ extract' = IF req = "connect" THEN extract ELSE req
    /\ ev' = Event("runtime", "-", "-", Str(req))
    /\ fx' = <<>>
    /\ raised' = FALSE
    /\ UNCHANGED <<linkVars, timers, chanVars, ctxVars, gets>>

Prompt == "You are an AI model ... Here is the current chunk:"
TextContent(slot) == IF slot = "article" THEN "page text" ELSE "undefined"

\* The callback of chrome.storage.session.get in sendExtractedNativeMessage.
StorageGetCallback ==
    /\ gets > 0
    /\ gets' = gets - 1
    /\ IF extract = "undefined" \/ port # "open"
       THEN fx' = <<>> /\ raised' = TRUE
       ELSE /\ fx' = <<NativePost(Envelope(Obj("new_chat", "summary",
                                              <<Prompt, TextContent(extract)>>)))>>
            /\ raised' = FALSE
    /\ ev' = Event("storage", "-", "-", Undefined)
    /\ UNCHANGED <<linkVars, timers, chanVars, ctxVars, extract>>

\* ---- specifications ------------------------------------------------------
\* The coordinator with every handler and every environment event.
Next ==
    \/ \E r \in Roles : Attach(r)
    \/ \E r \in Roles, ch \in {"cur", "old"} : TransportClose(r, ch)
    \/ \E ch \in {"cur", "old"}, ok \in BOOLEAN : ControlVerify(ch, ok)
    \/ \E ch \in {"cur", "old"} : ControlSendExtract(ch)
    \/ \E ch \in {"cur", "old"}, ok \in BOOLEAN : ControlForward(ch, ok)
    \/ \E ch \in {"cur", "old"}, m \in SummaryMsgs, ok \in BOOLEAN : SummaryMessage(ch, m, ok)
    \/ \E ch \in {"cur", "old"}, m \in ChatMsgs, ok \in BOOLEAN : ChatMessage(ch, m, ok)
    \/ \E m \in NativeMsgs : NativeMessage(m)
    \/ \E held \in BOOLEAN : NativeClose(held)
    \/ \E held \in BOOLEAN : onDisconnected(held)
    \/ \E ok \in BOOLEAN : ReconnectTimer(ok)
    \/ \E req \in RuntimeRequests : RuntimeMessage(req)
    \/ StorageGetCallback

Spec == Init /\ [][Next]_vars

\* The link life cycle: the popup and the chat page as the surfaces that ask
\* for the link, every native Port event and the reconnect timer.  UI Ports
\* are not superseded and the summary page stays closed.
LinkAttach(r) == Attach(r) /\ old' = old

NextLink ==
    \/ \E r \in {"Control", "Chat"} : LinkAttach(r)
    \/ TransportClose("Control", "cur")
    \/ \E ok \in BOOLEAN : ControlVerify("cur", ok)
    \/ \E ok \in BOOLEAN : ControlForward("cur", ok)
    \/ \E ok \in BOOLEAN : ChatMessage("cur", ChatNew, ok)
    \/ \E held \in BOOLEAN : NativeClose(held)
    \/ \E held \in BOOLEAN : onDisconnected(held)
    \/ \E ok \in BOOLEAN : ReconnectTimer(ok)

SpecLink == Init /\ [][NextLink]_vars

\* Reply routing: every UI channel event and every UI and native message,
\* over a link that holds at most MaxRouteConns native Ports and whose
\* disconnect events are still undelivered.
MaxRouteConns == 1
RouteAttach(r) == Attach(r) /\ old'["Control"] = 0
RouteVerify(ok) == ControlVerify("cur", ok) /\ Conns' <= MaxRouteConns
RouteSummaryMessage(ch, m, ok) == SummaryMessage(ch, m, ok) /\ Conns' <= MaxRouteConns
RouteChatMessage(ch, m, ok) == ChatMessage(ch, m, ok) /\ Conns' <= MaxRouteConns

NextRoute ==
    \/ \E r \in Roles : RouteAttach(r)
    \/ \E r \in Roles, ch \in {"cur", "old"} : TransportClose(r, ch)
    \/ \E ok \in BOOLEAN : RouteVerify(ok)
    \/ \E ch \in {"cur", "old"}, m \in SummaryMsgs, ok \in BOOLEAN : RouteSummaryMessage(ch, m, ok)
    \/ \E ch \in {"cur", "old"}, m \in ChatMsgs, ok \in BOOLEAN : RouteChatMessage(ch, m, ok)
    \/ \E m \in NativeMsgs : NativeMessage(m)
    \/ NativeClose(TRUE)

SpecRoute == Init /\ [][NextRoute]_vars

\* The link left to itself: the popup asks for the link, the native host
\* may answer and then closes every connection it is given, each disconnect
\* event is delivered before the next connect, and the reconnect timer does
\* the rest.
AutoVerify(ok) == ControlVerify("cur", ok) /\ Conns' <= MaxRouteConns

NextAuto ==
    \/ LinkAttach("Control")
    \/ TransportClose("Control", "cur")
    \/ \E ok \in BOOLEAN : AutoVerify(ok)
    \/ \E m \in {PongMsg, AiChunk} : NativeMessage(m)
    \/ NativeClose(TRUE)
    \/ onDisconnected(TRUE)
    \/ \E ok \in BOOLEAN : ReconnectTimer(ok)

SpecAuto == Init /\ [][NextAuto]_vars

\* Recovery: the link left to itself as in SpecAuto, with a native host that
\* can always be reopened by the reconnect timer, and a timer that fires once
\* it is set (setTimeout callbacks are run by the event loop).
RecoverVerify(ok) == ControlVerify("cur", ok) /\ Conns' <= MaxRouteConns

NextRecover ==
    \/ LinkAttach("Control")
    \/ TransportClose("Control", "cur")
    \/ \E ok \in BOOLEAN : RecoverVerify(ok)
    \/ \E m \in NativeMsgs : NativeMessage(m)
    \/ NativeClose(TRUE)
    \/ onDisconnected(TRUE)
    \/ ReconnectTimer(TRUE)

SpecRecover == Init /\ [][NextRecover]_vars /\ WF_vars(ReconnectTimer(TRUE))

\* The persisted extraction slot: the popup and the chat page over one native
\* Port at a time, the runtime messages that write the slot, sentinel 2 and
\* the storage callback that reads it.
StoreVerify(ok) == ControlVerify("cur", ok) /\ Conns' <= MaxRouteConns
StoreForward(ok) == ControlForward("cur", ok) /\ Conns' <= MaxRouteConns
StoreChatMessage(ok) == ChatMessage("cur", ChatNew, ok) /\ Conns' <= MaxRouteConns

NextStore ==
    \/ \E r \in {"Control", "Chat"} : LinkAttach(r)
    \/ \E ok \in BOOLEAN : StoreVerify(ok)
    \/ ControlSendExtract("cur")
    \/ \E ok \in BOOLEAN : StoreForward(ok)
    \/ \E ok \in BOOLEAN : StoreChatMessage(ok)
    \/ NativeClose(TRUE)
    \/ onDisconnected(TRUE)
    \/ \E ok \in BOOLEAN : ReconnectTimer(ok)
    \/ \E req \in RuntimeRequests : RuntimeMessage(req)
    \/ StorageGetCallback

SpecStore == Init /\ [][NextStore]_vars

\* ---- observations on the last handler run ---------------------------------
Only(kind) == SelectSeq(fx, LAMBDA e : e.kind = kind)
UiPosts == Only("ui")
NativePosts == Only("native")
ConnectAttempts == Only("connectNative")
Effects == {fx[i] : i \in DOMAIN fx}
PostsTo(role) == {e \in Effects : e.kind = "ui" /\ e.role = role}

AiReplies == {AiFull, AiChunk}
IsAiReply == ev.kind = "native" /\ ev.msg \in AiReplies
IsTaskRequestFrom(roles) ==
    ev.kind = "message" /\ ev.role \in roles /\ ev.msg.shape = "object"

\* ---- C1 ---------------------------------------------------------------------
\* C1: routing a message to a role delivers it on the Port the role's global
\* currently references, if that Port is open, and otherwise does nothing: a
\* routed message never lands on another Port of the role, the handler of a
\* native message never raises, and attaching a channel delivers nothing (no
\* message routed earlier was kept for it).
C1_RouteDeliversOrDrops ==
    /\ \A e \in Effects :
          e.kind = "ui" /\ e.msg # SendError =>
              e.chan = "cur" /\ Reg(e.role) = "open"
    /\ ev.kind = "attach" => fx = <<>>
    /\ ev.kind = "native" =>
          /\ ~raised
          /\ Len(fx) <= 1
          /\ ev.msg = PongMsg =>
                fx = IF portbg = "open"
                     THEN <<UiPost("Control", "cur", Status("ping_success"))>>
                     ELSE <<>>
          /\ ev.msg = AiChunk =>
                \E r \in {"Summary", "Chat"} :
                   fx = IF Reg(r) = "open" THEN <<UiPost(r, "cur", AiChunk)>> ELSE <<>>

\* A reply routed to the summary page whose Port has closed while a superseded
\* Port of the page is still open: nothing is delivered.
C1_Witness ==
    /\ ev.kind = "native" /\ ev.msg = AiChunk
    /\ receivedMsgFromComponent = SummaryAsk
    /\ portsumpg = "closed" /\ old["Summary"] > 0
    /\ fx = <<>>

C3_Original ==
    ev.kind = "disconnect" /\ ev.attempts = 2 =>
        /\ port = "null"
        /\ fx = forwardtopopup(Status("connection_failed"))
        /\ timers = 0

\* C3 as amended: each of the first three consecutive disconnects schedules a
\* reconnect; the disconnect that finds the counter at 3 (the fourth in a row
\* without a successful connect) leaves no Port held, routes
\* "connection_failed" to the popup, schedules no timer and leaves the
\* counter at 3.
C3_FailedAfterExhaustion ==
    ev.kind = "disconnect" =>
        /\ port = "null"
        /\ IF ev.attempts < MAX_RECONNECT_ATTEMPTS
           THEN fx = <<SetTimeout>> /\ reconnectAttempts = ev.attempts + 1
           ELSE /\ fx = forwardtopopup(Status("connection_failed"))
                /\ reconnectAttempts = MAX_RECONNECT_ATTEMPTS

C3_Witness ==
    /\ ev.kind = "disconnect" /\ ev.attempts = MAX_RECONNECT_ATTEMPTS
    /\ fx = <<UiPost("Control", "cur", Status("connection_failed"))>>
    /\ timers = 0

\* ---- C4 ---------------------------------------------------------------------
\* C4: when the most recent stamped request came from the chat page, an AI
\* reply is routed to the chat page and nothing is posted to the summary page.
C4_ChatContextRoutesToChat ==
    IsAiReply /\ ctxRole = "Chat" =>
        /\ fx = forward_to_chat_page(ev.msg)
        /\ PostsTo("Summary") = {}

C4_Witness ==
    /\ IsAiReply /\ ctxRole = "Chat"
    /\ portsumpg = "open"
    /\ fx = <<UiPost("Chat", "cur", AiChunk)>>

\* ---- C5 ---------------------------------------------------------------------
\* C5: when the most recent stamped request came from the summary page (its
\* abort request included), an AI reply is routed to the summary page and
\* nothing is posted to the chat page.
C5_SummaryContextRoutesToSummary ==
    IsAiReply /\ ctxRole = "Summary" /\ receivedMsgFromComponent.shape = "object" =>
        /\ fx = forward_to_summarise_page(ev.msg)
        /\ PostsTo("Chat") = {}

\* ---- C6 ---------------------------------------------------------------------
\* C6: with no request stamped since startup, an AI reply is routed to the
\* summary page and to no other channel.
C6_DefaultToSummary ==
    IsAiReply /\ receivedMsgFromComponent = Undefined =>
        /\ fx = forward_to_summarise_page(ev.msg)
        /\ PostsTo("Chat") = {} /\ PostsTo("Control") = {}

C6_Witness ==
    /\ IsAiReply /\ receivedMsgFromComponent = Undefined
    /\ portchpg = "open"
    /\ fx = <<UiPost("Summary", "cur", ev.msg)>>

\* ---- C7 ---------------------------------------------------------------------
\* C7: a task request {status, task, text} from the summary or chat page that
\* arrives while the held Port is open puts exactly one message on the native
\* Port, {data: {status, task, text}} with the three fields of the request.
C7_OneEnvelope ==
    IsTaskRequestFrom({"Summary", "Chat"}) /\ ev.port = "open" =>
        /\ Len(NativePosts) = 1
        /\ NativePosts[1].msg.data.status = ev.msg.status
        /\ NativePosts[1].msg.data.task = ev.msg.task
        /\ NativePosts[1].msg.data.text = ev.msg.text
        /\ fx = NativePosts

C7_Witness ==
    /\ IsTaskRequestFrom({"Chat"}) /\ ev.msg = ChatNew /\ ev.port = "open"
    /\ fx = <<NativePost([data |-> ChatNew])>>

\* ---- C8 ---------------------------------------------------------------------
PingFailed == UiPost("Control", "cur", Status("ping_failed"))

\* C8 as stated: ping() on a missing Port reports "ping_failed" at once and
\* sends nothing: sentinel 1 handled with no Port held posts "ping_failed"
\* on the popup's channel and nothing on a native Port.
C8_Original ==
    ev.kind = "message" /\ ev.msg = Sentinel1 /\ ev.port = "null" =>
        /\ PingFailed \in Effects
        /\ NativePosts = <<>>

\* C8 as amended: ping() on a missing Port returns false at once: sentinel 1
\* handled with no Port held posts nothing on a native Port, posts no
\* "ping_failed" on the popup's channel, and goes straight to connect(), the
\* step the handler takes exactly when ping() returned false.
C8_PingWithoutPort ==
    ev.kind = "message" /\ ev.msg = Sentinel1 /\ ev.port = "null" =>
        /\ NativePosts = <<>>
        /\ PingFailed \notin Effects
        /\ Len(ConnectAttempts) = 1
        /\ fx[1].kind = "connectNative"

C8_Witness ==
    /\ ev.kind = "message" /\ ev.msg = Sentinel1 /\ ev.port = "null"
    /\ portbg = "open"
    /\ fx = <<ConnectNative(TRUE)>>

\* ---- C9 ---------------------------------------------------------------------
\* C9: a native message of unrecognized shape is dropped: nothing is posted
\* on a UI channel and the handler does not raise.
C9_UnrecognizedDropped ==
    ev.kind = "native" /\ ev.msg = Unrecognized => fx = <<>> /\ ~raised

\* ---- C10 --------------------------------------------------------------------
FailedToSend == Status("failed_to_send_message_to_backend")

\* C10 as stated: a task request that finds the link unavailable leads to
\* exactly one connect(); if nothing could be sent,
\* "failed_to_send_message_to_backend" is posted on the requesting role's
\* channel.
C10_Original ==
    IsTaskRequestFrom({"Summary", "Chat"}) /\ ev.port # "open" =>
        /\ Len(ConnectAttempts) = 1
        /\ NativePosts = <<>> => UiPost(ev.role, ev.chan, FailedToSend) \in Effects

\* C10 as amended: with no Port held the handler calls connect() exactly once
\* and, if that succeeds, posts the envelope once; if connect() fails, or the
\* held Port is dead (then connect() is not called at all), nothing is sent,
\* "failed_to_send_message_to_backend" is routed to the popup, the requesting
\* Port gets {error: "Failed to send native message"}, and the handler ends
\* without raising.
C10_SendFailureReported ==
    IsTaskRequestFrom({"Summary", "Chat"}) /\ ev.port # "open" =>
        /\ ~raised
        /\ ev.port = "null" /\ ConnectNative(TRUE) \in Effects =>
              fx = <<ConnectNative(TRUE), NativePost([data |-> ev.msg])>>
        /\ ev.port = "null" /\ ConnectNative(TRUE) \notin Effects =>
              fx = <<ConnectNative(FALSE)>>
                   \o forwardtopopup(Status("error"))
                   \o forwardtopopup(FailedToSend)
                   \o <<UiPost(ev.role, ev.chan, SendError)>>
        /\ ev.port = "dead" =>
              fx = forwardtopopup(FailedToSend)
                   \o <<UiPost(ev.role, ev.chan, SendError)>>

C10_Witness ==
    /\ IsTaskRequestFrom({"Chat"}) /\ ev.port = "null"
    /\ fx = <<ConnectNative(FALSE),
              UiPost("Control", "cur", Status("error")),
              UiPost("Control", "cur", FailedToSend),
              UiPost("Chat", ev.chan, SendError)>>

\* ---- C11 --------------------------------------------------------------------
\* C11: no failure escapes a handler: whatever event was handled last (a UI
\* message, a native message, a timer firing, a storage callback) and
\* whatever the link state was, the handler ended without raising.
C11_NoHandlerRaises ==
    ev.kind \in {"message", "native", "timer", "disconnect", "storage"} => ~raised

\* ---- C12 --------------------------------------------------------------------
OpenConnections == (IF port = "open" THEN 1 ELSE 0) + strayOpen

\* C12: at most one native connection is open, with its listeners registered,
\* in every reachable state.
C12_AtMostOneConnection == OpenConnections <= 1

\* ---- C13 --------------------------------------------------------------------
\* C13: {"ping":"pong"} from the native host is answered by "ping_success" on
\* the popup's channel and {"error":"relaunching kcpp exe"} by "ping_failed";
\* in both cases nothing is posted to the summary or chat page, whatever
\* request is recorded.
C13_PongAndRelaunchToControl ==
    /\ ev.kind = "native" /\ ev.msg = PongMsg =>
          fx = IF portbg = "open"
               THEN <<UiPost("Control", "cur", Status("ping_success"))>>
               ELSE <<>>
    /\ ev.kind = "native" /\ ev.msg = RelaunchMsg =>
          fx = IF portbg = "open"
               THEN <<UiPost("Control", "cur", Status("ping_failed"))>>
               ELSE <<>>
    /\ ev.kind = "native" /\ ev.msg \in {PongMsg, RelaunchMsg} =>
          PostsTo("Summary") = {} /\ PostsTo("Chat") = {}

\* The relaunch notice arrives while a chat request is recorded and all
\* three channels are open.
C13_Witness ==
    /\ ev.kind = "native" /\ ev.msg = RelaunchMsg
    /\ ctxRole = "Chat" /\ portchpg = "open" /\ portsumpg = "open"
    /\ fx = <<PingFailed>>

\* ---- C14 --------------------------------------------------------------------
\* C14: the automatic reconnect policy is bounded: when every connection the
\* reconnect timer opens is closed again by the native host, the timer makes
\* at most 3 connect() calls in a row (without a UI message in between).
C14_AutoReconnectBounded == ev.auto <= MAX_RECONNECT_ATTEMPTS

\* ---- C15 --------------------------------------------------------------------
IsSentinel1 == ev.kind = "message" /\ ev.role = "Control" /\ ev.msg = Sentinel1

\* C15: on sentinel 1 connect() is called only if ping() failed: with an open
\* held Port the handler posts exactly one probe
\* {data: {status: "", task: "ping", text: ""}} and opens nothing; with no
\* Port held it posts no probe and calls connectNative exactly once.
C15_PingThenConnect ==
    /\ IsSentinel1 /\ ev.port = "open" =>
          /\ fx = <<NativePost([data |-> [status |-> "", task |-> "ping", text |-> ""]])>>
          /\ port = "open"
    /\ IsSentinel1 /\ ev.port = "null" =>
          /\ NativePosts = <<>>
          /\ Len(ConnectAttempts) = 1

\* Sentinel 1 on an open link while a reconnect timer is still pending.
C15_Witness ==
    /\ IsSentinel1 /\ ev.port = "open" /\ timers = 1
    /\ Len(NativePosts) = 1 /\ ConnectAttempts = <<>>

\* ---- C16 --------------------------------------------------------------------
\* C16: when the probe send throws because the held Port is dead,
\* "ping_failed" is posted on the popup's channel in the same handler run,
\* before anything else the handler does, and no probe goes out.
C16_DeadPortPingFailed ==
    IsSentinel1 /\ ev.port = "dead" /\ portbg = "open" =>
        /\ Len(fx) >= 1 /\ fx[1] = PingFailed
        /\ NativePosts = <<>>

C16_Witness ==
    /\ IsSentinel1 /\ ev.port = "dead" /\ portbg = "open"
    /\ fx = <<PingFailed, ConnectNative(TRUE)>>

\* ---- C17 --------------------------------------------------------------------
\* C17: the read of the written extraction slot that sentinel 2 starts ends
\* with exactly one outbound envelope {data: {status: "new_chat",
\* task: "summary", text}} on the native Port, its text ending with the
\* slot's textContent, and with no other effect.
C17_ExtractForwarded ==
    ev.kind = "storage" /\ extract # "undefined" =>
        /\ Len(fx) = 1 /\ fx = NativePosts
        /\ LET d == fx[1].msg.data IN
           /\ d.status = "new_chat" /\ d.task = "summary"
           /\ d.text[Len(d.text)] = TextContent(extract)

\* ---- C18 --------------------------------------------------------------------
\* C18: every handler that posts a request (not the health probe) on the
\* native Port leaves the task context holding that request's role and task:
\* the synthesized summary request of sentinel 2 is recorded as Control's
\* "summary", a request object from a role as that role's message.
C18_DispatchRecordsContext ==
    /\ ev.kind = "storage" /\ NativePosts # <<>> =>
          ctxRole = "Control" /\ receivedMsgFromComponent.task = "summary"
    /\ ev.kind = "message" /\ ev.msg.shape = "object" /\ NativePosts # <<>> =>
          ctxRole = ev.role /\ receivedMsgFromComponent = ev.msg

\* ---- C19 --------------------------------------------------------------------
\* C19: handling an inbound native message of any kind (echo, pong, relaunch
\* notice, AI reply, unrecognized) leaves the task context, i.e. the recorded
\* most recent request and the role that recorded it, as it was.
C19_NativeReplyKeepsContext ==
    [][ev'.kind = "native" =>
          /\ receivedMsgFromComponent' = receivedMsgFromComponent
          /\ ctxRole' = ctxRole]_vars

\* A full AI reply has been routed to the chat page and the chat request is
\* still the recorded context.
C19_Witness ==
    /\ ev.kind = "native" /\ ev.msg = AiFull
    /\ receivedMsgFromComponent = ChatOld /\ ctxRole = "Chat"
    /\ fx = <<UiPost("Chat", "cur", AiFull)>>

\* ---- C20 --------------------------------------------------------------------
\* C20: when role B (summary or chat page) sends a request while the context
\* was recorded by the other page A, the AI reply that arrives next is
\* delivered on B's channel (if B has one open) and nothing is posted to A.
C20_ReassignsToLatestRole ==
    [][\A B \in {"Summary", "Chat"} :
          (/\ ev.kind = "message" /\ ev.role = B /\ ev.msg.shape = "object"
           /\ ev.ctx \in {"Summary", "Chat"} \ {B}
           /\ ev'.kind = "native" /\ ev'.msg \in AiReplies)
          => /\ fx' = Forward(B, ev'.msg)
             /\ \A i \in DOMAIN fx' : fx'[i].role # ev.ctx]_vars

\* ---- C21 --------------------------------------------------------------------
\* C21: an abort request is posted on the native Port as one more envelope,
\* and while it is the recorded request every AI reply that arrives is still
\* delivered to a UI channel, the page that sent the abort having its channel
\* open.
C21_AbortDoesNotSuppress ==
    /\ ev.kind = "message" /\ ev.msg = Abort /\ ev.port = "open" =>
          fx = <<NativePost(Envelope(Abort))>>
    /\ IsAiReply /\ receivedMsgFromComponent = Abort /\ Reg(ctxRole) = "open" =>
          /\ Len(UiPosts) = 1
          /\ UiPosts[1].msg = ev.msg

\* ---- C22 --------------------------------------------------------------------
\* C22: when a later message of the popup is written to the native Port, no
\* earlier request of the popup is still unwritten: no read of the slot that
\* an earlier sentinel 2 started is pending.
C22_ControlForwardedInOrder ==
    ev.kind = "message" /\ ev.role = "Control" /\ ev.msg = ControlOther
      /\ NativePosts # <<>> => gets = 0

\* ---- C23 --------------------------------------------------------------------
\* C23: attaching a channel makes it the one registered channel of its role,
\* whatever was registered before, and a native message is delivered on
\* registered channels only: while a superseded channel of a role is still
\* open, nothing the native listener posts lands on it.
C23_AttachReplaces ==
    /\ ev.kind = "attach" => Reg(ev.role) = "open"
    /\ ev.kind = "native" =>
          \A i \in DOMAIN fx :
              fx[i].kind = "ui" => fx[i].chan = "cur" /\ Reg(fx[i].role) = "open"

\* The chat page holds a superseded and a newest channel, both open; the
\* chunk went to the newest.
C23_Witness ==
    /\ ev.kind = "native" /\ ev.msg = AiChunk
    /\ old["Chat"] = 1 /\ portchpg = "open"
    /\ fx = <<UiPost("Chat", "cur", AiChunk)>>

\* ---- C24 --------------------------------------------------------------------
Target == IF receivedMsgFromComponent.shape = "object"
             /\ receivedMsgFromComponent.task = "chat"
          THEN "Chat" ELSE "Summary"

\* C24: once the transport of a role's registered channel has closed, the
\* role has no open registered channel until it attaches again, and a native
\* message routed to such a role posts nothing and raises nothing.
C24_ClosedChannelDetached ==
    /\ ev.kind = "close" /\ ev.chan = "cur" => Reg(ev.role) = "closed"
    /\ IsAiReply /\ Reg(Target) = "closed" => fx = <<>> /\ ~raised
    /\ ev.kind = "native" /\ ev.msg \in {PongMsg, RelaunchMsg} /\ portbg = "closed" =>
          fx = <<>> /\ ~raised

\* The summary page went away while its summary was streaming.
C24_Witness ==
    /\ ev.kind = "native" /\ ev.msg = AiChunk
    /\ receivedMsgFromComponent = SummaryAsk /\ portsumpg = "closed"
    /\ fx = <<>> /\ ~raised

\* ---- C25 --------------------------------------------------------------------
ConnectFailed == \E i \in DOMAIN fx : fx[i] = ConnectNative(FALSE)

\* C25: a handler run in which connectNative threw makes no other connect
\* attempt, posts "error" on the popup's channel (if it is open) right after
\* the failed call, leaves the held Port as it was, which is none or a dead
\* one, and leaves the attempt counter as it was; a send that needed the
\* connection fails in its turn and posts nothing on the native Port.
C25_ConnectFailure ==
    ConnectFailed =>
        /\ Len(ConnectAttempts) = 1
        /\ \A i \in DOMAIN fx :
              fx[i] = ConnectNative(FALSE) =>
                  SubSeq(fx, i + 1, i + Len(forwardtopopup(Status("error"))))
                      = forwardtopopup(Status("error"))
        /\ port = ev.port /\ port \in {"null", "dead"}
        /\ reconnectAttempts = ev.attempts
        /\ ev.kind = "message" /\ ev.msg.shape = "object" =>
              NativePosts = <<>> /\ (raised \/ UiPosts[Len(UiPosts)].msg = SendError)

\* The reconnect timer's connect failed after one counted disconnect.
C25_Witness ==
    /\ ev.kind = "timer" /\ ev.attempts = 1 /\ reconnectAttempts = 1
    /\ fx = <<ConnectNative(FALSE), UiPost("Control", "cur", Status("error"))>>
    /\ port = "null"

\* ---- C26 --------------------------------------------------------------------
\* C26: a runtime message other than the extraction payload {title,
\* textContent} (action "connect", action "inject") leaves the session slot
\* as it was.
C26_SlotWrittenByExtractionOnly ==
    [][ev'.kind = "runtime" /\ ev'.msg # Str("article") => extract' = extract]_vars

C28_EchoLoggedOnly ==
    ev.kind = "native" /\ ev.msg = EchoMsg => fx = <<>> /\ ~raised

\* Every surface is attached and a chat request is recorded when the echo
\* arrives.
C28_Witness ==
    /\ ev.kind = "native" /\ ev.msg = EchoMsg
    /\ portbg = "open" /\ portsumpg = "open" /\ portchpg = "open"
    /\ receivedMsgFromComponent = ChatNew
    /\ fx = <<>>

\* ---- C29 --------------------------------------------------------------------
\* C29: the disconnect event of a superseded native Port, handled while the
\* coordinator holds an open Port, leaves that Port held and schedules no
\* reconnect.
C29_StaleDisconnectIgnored ==
    ev.kind = "disconnect" /\ ev.chan = "stray" /\ ev.port = "open" =>
        port = "open" /\ fx = <<>>

\* ---- C30 --------------------------------------------------------------------
\* C30: a reconnect timer that fires while the coordinator holds a Port does
\* nothing: no connectNative call, the link as it was.  A timer that fires
\* makes at most one connectNative call, and a disconnect event sets at most
\* one timer.
C30_TimerSkipsWhenConnected ==
    /\ ev.kind = "timer" /\ ev.port # "null" =>
          fx = <<>> /\ port = ev.port /\ reconnectAttempts = ev.attempts
    /\ ev.kind = "timer" => Len(ConnectAttempts) <= 1
    /\ ev.kind = "disconnect" => Len(Only("setTimeout")) <= 1

\* The chat page's send reconnected during the delay (counter back to zero)
\* and the timer then fired on the open Port.
C30_Witness ==
    /\ ev.kind = "timer" /\ ev.port = "open" /\ ev.attempts = 0
    /\ port = "open" /\ strayOpen = 0 /\ strayDead = 0
    /\ fx = <<>>

\* ---- C31 --------------------------------------------------------------------
\* C31: after a disconnect event that found the counter at zero and set the
\* reconnect timer, and unless a message of a surface arrives first, the
\* timer's own connect() eventually leaves the coordinator holding an open
\* Port with the attempt counter at zero.
C31_EventuallyReconnected ==
    (ev.kind = "disconnect" /\ ev.attempts = 0 /\ fx = <<SetTimeout>>)
        ~> \/ /\ ev.kind = "timer" /\ fx = <<ConnectNative(TRUE)>>
              /\ port = "open" /\ reconnectAttempts = 0
           \/ ev.kind = "message"

\* The timer reconnected after one counted disconnect, the popup gone.
C31_Witness ==
    /\ ev.kind = "timer" /\ ev.port = "null" /\ ev.attempts = 1
    /\ fx = <<ConnectNative(TRUE)>>
    /\ port = "open" /\ reconnectAttempts = 0 /\ timers = 0
    /\ portbg = "closed"

\* ---- C32 --------------------------------------------------------------------
\* C32: the summary page's "initialize" posts nothing, calls connectNative
\* never and leaves the link as it was; it becomes the recorded request
\* whatever was recorded before, and while it is, an AI reply goes to the
\* summary page and nothing goes to the chat page.
C32_InitializeRoutesToSummary ==
    /\ ev.kind = "message" /\ ev.msg = Initialize =>
          /\ fx = <<>> /\ ~raised
          /\ port = ev.port /\ reconnectAttempts = ev.attempts
          /\ receivedMsgFromComponent = Initialize /\ ctxRole = "Summary"
    /\ IsAiReply /\ receivedMsgFromComponent = Initialize =>
          /\ fx = forward_to_summarise_page(ev.msg)
          /\ PostsTo("Chat") = {} /\ PostsTo("Control") = {}

\* Summary and chat page both open, "initialize" the recorded request: the
\* final reply went to the summary page.
C32_Witness ==
    /\ IsAiReply /\ ev.msg = AiFull /\ receivedMsgFromComponent = Initialize
    /\ portchpg = "open"
    /\ fx = <<UiPost("Summary", "cur", AiFull)>>

\* ---- C33 --------------------------------------------------------------------
SendFailed == \E i \in DOMAIN fx : fx[i].kind = "ui" /\ fx[i].msg = SendError

\* C33: a request object of the summary or the chat page whose send failed
\* (the handler answered with the error object) is the recorded request all
\* the same, and an AI reply is routed by the recorded request alone: to the
\* chat page if its task is "chat", to the summary page otherwise.
C33_FailedSendKeepsStamp ==
    /\ IsTaskRequestFrom({"Summary", "Chat"}) /\ SendFailed =>
          /\ NativePosts = <<>>
          /\ receivedMsgFromComponent = ev.msg /\ ctxRole = ev.role
    /\ IsAiReply => fx = Forward(Target, ev.msg)

\* The chat page's request found a dead Port while the summary page's
\* request was the recorded one.
C33_Witness ==
    /\ IsTaskRequestFrom({"Chat"}) /\ ev.ctx = "Summary" /\ ev.port = "dead"
    /\ SendFailed /\ receivedMsgFromComponent = ChatNew /\ ctxRole = "Chat"

\* ---- C34 --------------------------------------------------------------------
\* C34: reconnectAttempts is always in 0..MAX_RECONNECT_ATTEMPTS; a handler
\* leaves it higher than it found it only if it is a disconnect event that
\* set the reconnect timer, and then by one; "connection_failed" is posted
\* only by a disconnect event that found it at MAX_RECONNECT_ATTEMPTS.
C34_CounterInRange ==
    /\ reconnectAttempts \in 0..MAX_RECONNECT_ATTEMPTS
    /\ reconnectAttempts > ev.attempts =>
          /\ ev.kind = "disconnect" /\ fx = <<SetTimeout>>
          /\ reconnectAttempts = ev.attempts + 1
    /\ \A i \in DOMAIN fx :
          fx[i].kind = "ui" /\ fx[i].msg = Status("connection_failed") =>
              ev.kind = "disconnect" /\ ev.attempts = MAX_RECONNECT_ATTEMPTS

\* The third counted disconnect: the counter reaches its maximum.
C34_Witness ==
    /\ ev.kind = "disconnect" /\ ev.attempts = MAX_RECONNECT_ATTEMPTS - 1
    /\ reconnectAttempts = MAX_RECONNECT_ATTEMPTS
    /\ fx = <<SetTimeout>>

====
